---- MODULE Spec2Model ----
(***************************************************************************)
(* The Socket.IO chat gateway of AcadMate (src/main.py, lines 90-121):     *)
(* the two event handlers join_room and send_message, the room registry    *)
(* held by the Socket.IO server `sio`, the Message table written through   *)
(* a per-call database session, and the asyncio event loop the handlers    *)
(* run on.                                                                 *)
(*                                                                         *)
(* Scheduling.  Both handlers are coroutines on one asyncio loop.  A       *)
(* coroutine gives the loop up only at an `await`.  send_message has a     *)
(* single await, line 121; lines 107-119 (SessionLocal(), Message(...),    *)
(* db.add, db.commit, db.close) are plain synchronous calls.  The variable *)
(* `loop` names the handler that holds the loop; the statements of a       *)
(* handler are separate steps so that its intermediate states are visible, *)
(* but only the holder of the loop can take a step.                        *)
(*                                                                         *)
(* Input domain.  Connection handles (sids) are generated by the transport *)
(* and no request_id of the input domain has a sid as its string form.     *)
(***************************************************************************)
EXTENDS Integers, Sequences, FiniteSets, TLC

\* Number of inbound events one run handles.
MaxEvents == 3

\* Number of inbound events of a run checked for progress under fairness.
MaxFairEvents == 2

Eids == 1..MaxEvents

\* Connection handles supplied by the transport.
Sids == {"c1", "c2"}

----------------------------------------------------------------------------
(* Python values carried in request_id: an int or a str.                   *)

PyInt(i) == [t |-> "int", n |-> i, s |-> ""]
PyStr(x) == [t |-> "str", n |-> 0, s |-> x]

Digit(d) ==
  CASE d = 0 -> "0" [] d = 1 -> "1" [] d = 2 -> "2" [] d = 3 -> "3"
    [] d = 4 -> "4" [] d = 5 -> "5" [] d = 6 -> "6" [] d = 7 -> "7"
    [] d = 8 -> "8" [] d = 9 -> "9"

RECURSIVE IntToStr(_)
IntToStr(i) == IF i < 10 THEN Digit(i) ELSE IntToStr(i \div 10) \o Digit(i % 10)

\* A faulty key: the value's type is kept in the key, as when str() is
\* left out.
str_typed(v) == IF v.t = "int" THEN "int:" \o IntToStr(v.n) ELSE v.s

\* str(v) of lines 102 and 121.
str(v) == IF v.t = "int" THEN IntToStr(v.n) ELSE v.s

Fields == {"request_id", "sender_id", "content"}

Restrict(f, S) == [k \in S |-> f[k]]

FullData(r) == [request_id |-> r, sender_id |-> 7, content |-> "hello"]

\* The input domains a run draws its payloads from: the request ids of its
\* join_room events, those of its send_message events, and the fields a
\* malformed payload may lack.
Universes ==
  { [joins |-> {PyInt(42), PyInt(43)}, sends |-> {PyInt(42), PyInt(43)},
     lacks |-> {}],
    [joins |-> {PyInt(42), PyStr("042")}, sends |-> {PyInt(42), PyStr("42")},
     lacks |-> {}],
    [joins |-> {PyInt(42)}, sends |-> {PyInt(42)}, lacks |-> Fields] }

\* Payloads of join_room events: {request_id: r}, or a payload without it.
JoinData(u) ==
  {Restrict(FullData(r), {"request_id"}) : r \in u.joins}
    \cup {Restrict(FullData(r), {}) : r \in {x \in u.joins : "request_id" \in u.lacks}}

\* Payloads of send_message events: all three fields, or one field missing.
SendData(u) ==
  {FullData(r) : r \in u.sends}
    \cup {Restrict(FullData(r), Fields \ {f}) : r \in u.sends, f \in u.lacks}

Has(data, f) == f \in DOMAIN data

----------------------------------------------------------------------------
VARIABLES
  universe,  \* the input domain of this run
  rooms,     \* sio's room registry: room key -> set of sids
  rows,      \* the Message table, in commit order
  rowEid,    \* history: the event that committed each row
  storeSeen, \* history: the store as each handler's write found it
  sessions,  \* the open database sessions
  loop,      \* the handler running on the event loop, 0 when it is free
  events,    \* history: the inbound events, in the order their handlers started
  pc,        \* position of each handler
  db,        \* send_message's local `db`: its session, 0 when it has none
  new_msg,   \* send_message's local `new_msg`: <<row>> once built
  exc,       \* the exception a handler is raising, "none" when there is none
  printed,   \* the "Error saving message" lines printed, by event
  inbox,     \* the new_message events delivered to each connection
  emitted    \* history: the sio.emit calls made

vars == <<universe, rooms, rows, rowEid, storeSeen, sessions, loop, events, pc, db,
          new_msg, exc, printed, inbox, emitted>>

Init ==
  /\ universe \in Universes
  /\ rooms = [r \in {} |-> {}]
  /\ rows = <<>>
  /\ rowEid = <<>>
  /\ storeSeen = [e \in Eids |-> "unused"]
  /\ sessions = {}
  /\ loop = 0
  /\ events = <<>>
  /\ pc = [e \in Eids |-> "idle"]
  /\ db = [e \in Eids |-> 0]
  /\ new_msg = [e \in Eids |-> <<>>]
  /\ exc = [e \in Eids |-> "none"]
  /\ printed = <<>>
  /\ inbox = [c \in Sids |-> <<>>]
  /\ emitted = <<>>

----------------------------------------------------------------------------
(* The Socket.IO server's room operations.                                 *)

Members(rs, room) == IF room \in DOMAIN rs THEN rs[room] ELSE {}

\* A faulty enter_room: entering a room the connection is in leaves it.
enter_room_toggle(rs, sid, room) ==
  [r \in DOMAIN rs \cup {room} |->
     IF r = room
       THEN IF sid \in Members(rs, r) THEN Members(rs, r) \ {sid}
                                      ELSE Members(rs, r) \cup {sid}
       ELSE rs[r]]

\* A faulty enter_room: the room's membership is replaced by the newcomer.
enter_room_overwrite(rs, sid, room) ==
  [r \in DOMAIN rs \cup {room} |-> IF r = room THEN {sid} ELSE rs[r]]

\* sio.enter_room(sid, room): the room is created when absent.
enter_room(rs, sid, room) ==
  [r \in DOMAIN rs \cup {room} |->
     IF r = room THEN Members(rs, r) \cup {sid} ELSE rs[r]]

\* A faulty emit: the room argument is dropped, every connection is addressed.
Recipients_all(rs, room) == Sids

\* A faulty emit: a room without members is treated as no room given, and
\* every connection is addressed.
Recipients_fallback(rs, room) ==
  IF Members(rs, room) = {} THEN Sids ELSE Members(rs, room)

\* The connections sio.emit(..., room=room) addresses.
Recipients(rs, room) == Members(rs, room)

\* The payload of line 121: `data` itself.
Published(data, row) == data

\* A faulty record: the content column is left empty.
Message_blank(data) ==
  [request_id |-> data["request_id"], sender_id |-> data["sender_id"],
   content |-> ""]

\* models.Message(request_id=..., sender_id=..., content=...), lines 109-113.
Message(data) ==
  [request_id |-> data["request_id"], sender_id |-> data["sender_id"],
   content |-> data["content"]]

\* A faulty write: the record is merged over the newest row of the table.
insert_merge(tbl, row) ==
  IF tbl = <<>> THEN <<row>> ELSE [tbl EXCEPT ![Len(tbl)] = row]

\* The INSERT that db.add and db.commit perform: one new row.
insert(tbl, row) == Append(tbl, row)

\* A faulty handler: no except clause, only try/finally.
Caught_none(x) == FALSE

\* A faulty handler: the clause is `except KeyError`.
Caught_keyerror(x) == x = "KeyError"

\* A faulty handler: the clause is `except SQLAlchemyError`.
Caught_sqlalchemy(x) == x = "SQLAlchemyError"

\* `except Exception` of line 116 catches every exception of the try body.
Caught(x) == x \in {"KeyError", "SQLAlchemyError"}

\* A faulty handler: the session is not closed.
close_leak(ss, s) == ss

\* db.close() of line 119.
close(ss, s) == ss \ {s}

\* A faulty handler: the emit comes first.
AfterOpen_emit == "L121"

\* The statement after line 107 is the try body.
AfterOpen == "L109"

----------------------------------------------------------------------------
(* join_room, lines 100-102.  It has no suspension point: enter_room does  *)
(* not wait for anything.                                                  *)

join_room(sid, data) ==
  /\ loop = 0
  /\ Len(events) < MaxEvents
  /\ LET e == Len(events) + 1 IN
       /\ events' = Append(events, [kind |-> "join_room", sid |-> sid, data |-> data])
       /\ IF Has(data, "request_id")
            THEN /\ rooms' = enter_room(rooms, sid, str(data["request_id"]))
                 /\ pc' = [pc EXCEPT ![e] = "done"]
                 /\ exc' = exc
            ELSE /\ rooms' = rooms
                 /\ pc' = [pc EXCEPT ![e] = "raised"]
                 /\ exc' = [exc EXCEPT ![e] = "KeyError"]
  /\ UNCHANGED <<universe, rows, rowEid, storeSeen, sessions, loop, db, new_msg, printed,
                 inbox, emitted>>

----------------------------------------------------------------------------
(* send_message, lines 106-121.                                            *)

\* Line 107: the handler starts and opens its session.
send_message(sid, data) ==
  /\ loop = 0
  /\ Len(events) < MaxEvents
  /\ LET e == Len(events) + 1 IN
       /\ events' = Append(events, [kind |-> "send_message", sid |-> sid, data |-> data])
       /\ db' = [db EXCEPT ![e] = e]
       /\ sessions' = sessions \cup {e}
       /\ pc' = [pc EXCEPT ![e] = AfterOpen]
       /\ loop' = e
  /\ UNCHANGED <<universe, rooms, rows, rowEid, storeSeen, new_msg, exc, printed, inbox, emitted>>

\* Lines 109-113: the record is built; a missing field raises KeyError.
Construct(e) ==
  /\ loop = e /\ pc[e] = "L109"
  /\ IF Fields \subseteq DOMAIN events[e].data
       THEN /\ new_msg' = [new_msg EXCEPT ![e] = <<Message(events[e].data)>>]
            /\ pc' = [pc EXCEPT ![e] = "L114"]
            /\ exc' = exc
       ELSE /\ new_msg' = new_msg
            /\ pc' = [pc EXCEPT ![e] = "L116"]
            /\ exc' = [exc EXCEPT ![e] = "KeyError"]
  /\ UNCHANGED <<universe, rooms, rows, rowEid, storeSeen, sessions, loop, events, db,
                 printed, inbox, emitted>>

\* Line 114: db.add(new_msg).  `up` is whether the store accepts the call;
\* when it does not, the call raises inside the try body.
Add(e, up) ==
  /\ loop = e /\ pc[e] = "L114"
  /\ IF up
       THEN /\ pc' = [pc EXCEPT ![e] = "L115"]
            /\ exc' = exc
            /\ storeSeen' = storeSeen
       ELSE /\ pc' = [pc EXCEPT ![e] = "L116"]
            /\ exc' = [exc EXCEPT ![e] = "SQLAlchemyError"]
            /\ storeSeen' = [storeSeen EXCEPT ![e] = "down"]
  /\ UNCHANGED <<universe, rooms, rows, rowEid, sessions, loop, events, db,
                 new_msg, printed, inbox, emitted>>

\* Line 115: db.commit(); the row is durable when it returns, or it raises
\* and the transaction leaves no row (`up` as in Add).
Commit(e, up) ==
  /\ loop = e /\ pc[e] = "L115"
  /\ IF up
       THEN /\ rows' = insert(rows, new_msg[e][1])
            /\ rowEid' = Append(rowEid, e)
            /\ pc' = [pc EXCEPT ![e] = "L119"]
            /\ exc' = exc
            /\ storeSeen' = [storeSeen EXCEPT ![e] = "up"]
       ELSE /\ rows' = rows
            /\ rowEid' = rowEid
            /\ pc' = [pc EXCEPT ![e] = "L116"]
            /\ exc' = [exc EXCEPT ![e] = "SQLAlchemyError"]
            /\ storeSeen' = [storeSeen EXCEPT ![e] = "down"]
  /\ UNCHANGED <<universe, rooms, sessions, loop, events, db, new_msg,
                 printed, inbox, emitted>>

\* Lines 116-117: the exception is caught and printed; an exception the
\* clause does not catch goes on to the finally block still raised.
Except(e) ==
  /\ loop = e /\ pc[e] = "L116"
  /\ IF Caught(exc[e])
       THEN /\ printed' = Append(printed, e)
            /\ exc' = [exc EXCEPT ![e] = "none"]
       ELSE /\ printed' = printed
            /\ exc' = exc
  /\ pc' = [pc EXCEPT ![e] = "L119"]
  /\ UNCHANGED <<universe, rooms, rows, rowEid, storeSeen, sessions, loop, events, db,
                 new_msg, inbox, emitted>>

\* Lines 118-119: the finally block closes the session; a still-raised
\* exception then leaves the handler.
Close(e) ==
  /\ loop = e /\ pc[e] = "L119"
  /\ sessions' = close(sessions, db[e])
  /\ IF exc[e] = "none"
       THEN /\ pc' = [pc EXCEPT ![e] = "L121"]
            /\ loop' = loop
       ELSE /\ pc' = [pc EXCEPT ![e] = "raised"]
            /\ loop' = 0
  /\ UNCHANGED <<universe, rooms, rows, rowEid, storeSeen, events, db, new_msg, exc,
                 printed, inbox, emitted>>

Delivery(e, room, payload) ==
  [event |-> "new_message", data |-> payload, room |-> room, eid |-> e]

\* A faulty queue: the newest packet goes out first.
put_front(q, pkt) == <<pkt>> \o q

\* A connection's outbound queue: packets leave in the order they were put.
put(q, pkt) == Append(q, pkt)

\* Line 121: sio.emit("new_message", data, room=str(data["request_id"])).
\* The membership is read and the packets are queued when emit is called;
\* the handler then waits for the sends and gives the loop up.
Emit(e) ==
  /\ loop = e /\ pc[e] = "L121"
  /\ LET data == events[e].data IN
       IF Has(data, "request_id")
         THEN LET room == str(data["request_id"])
                  to == Recipients(rooms, room)
                  payload == Published(data, new_msg[e])
              IN /\ inbox' = [c \in Sids |->
                               IF c \in to
                                 THEN put(inbox[c], Delivery(e, room, payload))
                                 ELSE inbox[c]]
                 /\ emitted' = Append(emitted,
                                 [eid |-> e, room |-> room, data |-> payload, to |-> to])
                 /\ pc' = [pc EXCEPT ![e] = "awaiting"]
                 /\ exc' = exc
         ELSE /\ inbox' = inbox
              /\ emitted' = emitted
              /\ pc' = [pc EXCEPT ![e] = "raised"]
              /\ exc' = [exc EXCEPT ![e] = "KeyError"]
  /\ loop' = 0
  /\ UNCHANGED <<universe, rooms, rows, rowEid, storeSeen, sessions, events, db, new_msg, printed>>

\* The await of line 121 completes and the handler returns.
Return(e) ==
  /\ loop = 0 /\ pc[e] = "awaiting"
  /\ pc' = [pc EXCEPT ![e] = "done"]
  /\ UNCHANGED <<universe, rooms, rows, rowEid, storeSeen, sessions, loop, events, db,
                 new_msg, exc, printed, inbox, emitted>>

JoinEvent == \E sid \in Sids, data \in JoinData(universe) : join_room(sid, data)
SendEvent == \E sid \in Sids, data \in SendData(universe) : send_message(sid, data)
ConstructStep == \E e \in Eids : Construct(e)
AddStep == \E e \in Eids, up \in BOOLEAN : Add(e, up)
CommitStep == \E e \in Eids, up \in BOOLEAN : Commit(e, up)
ExceptStep == \E e \in Eids : Except(e)
CloseStep == \E e \in Eids : Close(e)
EmitStep == \E e \in Eids : Emit(e)
ReturnStep == \E e \in Eids : Return(e)

\* A step of handler e once it has started.
HandlerStep(e) ==
  \/ Construct(e) \/ Except(e) \/ Close(e) \/ Emit(e) \/ Return(e)
  \/ \E up \in BOOLEAN : Add(e, up) \/ Commit(e, up)

Next ==
  \/ JoinEvent
  \/ SendEvent
  \/ ConstructStep
  \/ AddStep
  \/ CommitStep
  \/ ExceptStep
  \/ CloseStep
  \/ EmitStep
  \/ ReturnStep

Spec == Init /\ [][Next]_vars

\* Every handler started so far has returned or raised.
Quiet == \A e \in 1..Len(events) : pc[e] \in {"done", "raised"}

SeqNext ==
  \/ Quiet /\ JoinEvent
  \/ Quiet /\ SendEvent
  \/ ConstructStep
  \/ AddStep
  \/ CommitStep
  \/ ExceptStep
  \/ CloseStep
  \/ EmitStep
  \/ ReturnStep

\* The runs without external concurrency: an event arrives only when the
\* handlers of the earlier ones have completed.
SeqSpec == Init /\ [][SeqNext]_vars

FairNext ==
  \/ Len(events) < MaxFairEvents /\ JoinEvent
  \/ Len(events) < MaxFairEvents /\ SendEvent
  \/ ConstructStep
  \/ AddStep
  \/ CommitStep
  \/ ExceptStep
  \/ CloseStep
  \/ EmitStep
  \/ ReturnStep

\* asyncio runs every ready task: a started handler is not starved.  No
\* fairness is assumed of the arrival of events.
FairSpec ==
  Init /\ [][FairNext]_vars /\ \A e \in Eids : WF_vars(HandlerStep(e))

----------------------------------------------------------------------------
(* Vocabulary of the properties.                                           *)

Started == 1..Len(events)

IsSend(e) == e \in Started /\ events[e].kind = "send_message"
IsJoin(e) == e \in Started /\ events[e].kind = "join_room"

\* The payload carries request_id, sender_id and content.
WellFormed(e) == Fields \subseteq DOMAIN events[e].data

\* The room a payload addresses.
RoomOf(e) == str(events[e].data["request_id"])

\* The handler is between opening its session and closing it.
InWrite(e) == pc[e] \in {"L109", "L114", "L115", "L116", "L119"}

\* The handler has left its persistence step.
PastWrite(e) == pc[e] \in {"L121", "awaiting", "done", "raised"}

Completed(e) == pc[e] \in {"done", "raised"}

EmitsOf(e) == {k \in DOMAIN emitted : emitted[k].eid = e}
RowsOf(e) == {k \in DOMAIN rowEid : rowEid[k] = e}
FailuresOf(e) == {k \in DOMAIN printed : printed[k] = e}
ReceivedOf(c, e) == {i \in DOMAIN inbox[c] : inbox[c][i].eid = e}

\* Connection c joined room R in an event handled before event n.
JoinedBefore(c, R, n) ==
  \E j \in Started :
    /\ j < n /\ IsJoin(j) /\ events[j].sid = c
    /\ Has(events[j].data, "request_id") /\ RoomOf(j) = R

Joined(c, R) == JoinedBefore(c, R, Len(events) + 1)

----------------------------------------------------------------------------
\* C1 (persistence-failure isolation): a send_message whose payload carries
\* request_id, sender_id and content and whose store write failed (add or
\* commit raised) has, once its handler completes, issued exactly one
\* new_message broadcast, to room str(request_id), and added no row.
C1_PersistenceFailureIsolation ==
  \A e \in Started :
    (IsSend(e) /\ WellFormed(e) /\ storeSeen[e] = "down") =>
      /\ RowsOf(e) = {}
      /\ Cardinality(EmitsOf(e)) <= 1
      /\ Completed(e) =>
            /\ pc[e] = "done"
            /\ Cardinality(EmitsOf(e)) = 1
            /\ \A k \in EmitsOf(e) : emitted[k].room = RoomOf(e)

\* A send to room "42" whose write failed has completed and reached a member.
W1_FailedWriteBroadcast ==
  \E e \in Started :
    /\ IsSend(e) /\ WellFormed(e) /\ storeSeen[e] = "down" /\ pc[e] = "done"
    /\ \E k \in EmitsOf(e) : emitted[k].room = "42" /\ emitted[k].to # {}
    /\ rows = <<>>

\* C2 (send->persist contract): a send_message with payload {request_id,
\* sender_id, content} handled while the store is healthy creates exactly one
\* Message row, with the payload's three fields, and issues exactly one
\* new_message whose payload is the inbound payload unmodified; the emit step
\* delivers it once to every member of room str(request_id).
C2_Rows ==
  \A e \in Started :
    (IsSend(e) /\ WellFormed(e) /\ storeSeen[e] = "up") =>
      /\ Cardinality(RowsOf(e)) = 1
      /\ \A k \in RowsOf(e) :
           \A f \in Fields : rows[k][f] = events[e].data[f]
      /\ Cardinality(EmitsOf(e)) <= 1
      /\ Completed(e) =>
            /\ pc[e] = "done"
            /\ Cardinality(EmitsOf(e)) = 1
            /\ \A k \in EmitsOf(e) :
                 /\ emitted[k].data = events[e].data
                 /\ emitted[k].room = RoomOf(e)
                 /\ \A c \in emitted[k].to :
                      /\ Cardinality(ReceivedOf(c, e)) = 1
                      /\ \A i \in ReceivedOf(c, e) :
                           inbox[c][i].data = events[e].data

C2_EmitStep ==
  \A e \in Eids :
    (pc[e] = "L121" /\ pc'[e] = "awaiting" /\ storeSeen[e] = "up") =>
      \A c \in Members(rooms, RoomOf(e)) :
        inbox'[c] = Append(inbox[c], Delivery(e, RoomOf(e), events[e].data))

C2_SendPersistContract == []C2_Rows /\ [][C2_EmitStep]_vars

\* The payload {42, 7, "hello"} was committed as one row and delivered to a
\* member of room "42".
W2_HealthySend ==
  \E e \in Started :
    /\ IsSend(e) /\ storeSeen[e] = "up" /\ pc[e] = "done"
    /\ events[e].data = FullData(PyInt(42))
    /\ rows = <<[request_id |-> PyInt(42), sender_id |-> 7, content |-> "hello"]>>
    /\ \E c \in Sids : Joined(c, "42") /\ Cardinality(ReceivedOf(c, e)) = 1

\* C3 (no cross-room leakage): a connection holds a new_message addressed to
\* room R only if it joined room R before that broadcast; in particular a
\* connection that joined "42" and never "43" holds none addressed to "43".
C3_NoCrossRoomLeakage ==
  \A c \in Sids :
    \A i \in DOMAIN inbox[c] :
      JoinedBefore(c, inbox[c][i].room, inbox[c][i].eid)

\* A connection joined "42" and never "43"; a later broadcast to "43"
\* reached another connection and not this one.
W3_OtherRoomBroadcast ==
  \E c \in Sids :
    /\ Joined(c, "42") /\ ~Joined(c, "43")
    /\ \E k \in DOMAIN emitted :
         /\ emitted[k].room = "43" /\ emitted[k].to # {}
         /\ JoinedBefore(c, "42", emitted[k].eid)
    /\ \A i \in DOMAIN inbox[c] : inbox[c][i].room # "43"

\* C4 (a slow write delays only its own broadcast): while a send_message
\* handler's store write is in progress, another pending event, here a
\* join_room, can be handled.
X4_WriteDoesNotBlockOthers ==
  \A e \in Started :
    (InWrite(e) /\ Len(events) < MaxEvents) => ENABLED JoinEvent

\* C5 (racing sends interleave at the persistence step): while the
\* first-started send has not completed its write, a second send_message
\* handler can start, so that its row could be committed first.
X5_SecondSendCanOvertake ==
  \A e \in Started :
    (IsSend(e) /\ pc[e] \in {"L109", "L114", "L115"} /\ Len(events) < MaxEvents)
      => ENABLED SendEvent

\* What the code does instead of C5: rows are committed in the order the
\* handlers started.
StoreOrderIsStartOrder ==
  \A i, j \in DOMAIN rowEid : i < j => rowEid[i] < rowEid[j]

\* C6 (persist-then-publish): the new_message of an event is never issued
\* before that event's persistence attempt has finished (its row committed,
\* or its failure caught) and its session has been closed.
C6_PersistThenPublish ==
  \A k \in DOMAIN emitted :
    LET e == emitted[k].eid IN
      /\ db[e] # 0 /\ db[e] \notin sessions
      /\ RowsOf(e) # {} \/ FailuresOf(e) # {}

\* Two broadcasts were issued, one after a committed row and one after a
\* failed write.
W6_PublishedAfterBothOutcomes ==
  \E k1, k2 \in DOMAIN emitted :
    /\ RowsOf(emitted[k1].eid) # {}
    /\ FailuresOf(emitted[k2].eid) # {}

\* C7 (guaranteed broadcast): under fair scheduling every send_message
\* handler that starts with a payload carrying request_id eventually has
\* issued its one new_message and returned, whether the write succeeded or
\* failed; a failed write is caught once and not retried.
C7_NoRetry ==
  \A e \in Started :
    /\ Cardinality(FailuresOf(e)) <= 1
    /\ Cardinality(RowsOf(e)) <= 1
    /\ Cardinality(EmitsOf(e)) <= 1

C7_GuaranteedBroadcast ==
  /\ []C7_NoRetry
  /\ \A e \in Eids :
       (pc[e] = "L109" /\ Has(events[e].data, "request_id"))
         ~> (pc[e] = "done" /\ Cardinality(EmitsOf(e)) = 1)

\* A send whose write failed has broadcast and returned.
W7_FailedSendReturned ==
  \E e \in Started :
    /\ IsSend(e) /\ storeSeen[e] = "down" /\ pc[e] = "done"
    /\ Cardinality(EmitsOf(e)) = 1 /\ Cardinality(FailuresOf(e)) = 1

\* C8 (delivery is independent of the persistence outcome): whenever no
\* handler is running, what each connection has received is determined by
\* the sequence of join_room and send_message events alone -- every send
\* carrying request_id, in event order, delivered to the connections that
\* joined its room before it -- whichever store writes failed.  Two runs of
\* the same events therefore deliver the same sequence.
RECURSIVE ExpectedInbox(_, _)
ExpectedInbox(c, n) ==
  IF n = 0 THEN <<>>
  ELSE IF /\ IsSend(n) /\ Has(events[n].data, "request_id")
          /\ JoinedBefore(c, RoomOf(n), n)
         THEN Append(ExpectedInbox(c, n - 1),
                     Delivery(n, RoomOf(n), events[n].data))
         ELSE ExpectedInbox(c, n - 1)

C8_DeliveryIndependentOfStore ==
  loop = 0 => \A c \in Sids : inbox[c] = ExpectedInbox(c, Len(events))

\* One connection has received, in order, a message whose write failed and a
\* message whose write succeeded.
W8_MixedOutcomesDelivered ==
  \E c \in Sids :
    /\ loop = 0 /\ Len(inbox[c]) = 2
    /\ storeSeen[inbox[c][1].eid] = "down"
    /\ storeSeen[inbox[c][2].eid] = "up"

\* C9 (the session never leaks): every send_message invocation has its own
\* session; once a handler has left its persistence step, by a commit, by a
\* failure in building the row or by a failure in add or commit, its session
\* is closed; when no handler is inside its persistence step no session is
\* open.
C9_SessionNeverLeaks ==
  /\ \A e \in Started : IsSend(e) =>
        /\ db[e] # 0
        /\ \A e2 \in Started : (IsSend(e2) /\ e2 # e) => db[e2] # db[e]
        /\ InWrite(e) => db[e] \in sessions
        /\ PastWrite(e) => db[e] \notin sessions
  /\ (\A e \in Started : ~InWrite(e)) => sessions = {}

\* Three sends have left the persistence step, one by a commit, one by a
\* failure in building the row and one by a failure of the store.
W9_AllExitPathsClosed ==
  /\ sessions = {}
  /\ \E e1, e2, e3 \in Started :
       /\ PastWrite(e1) /\ RowsOf(e1) # {}
       /\ PastWrite(e2) /\ IsSend(e2) /\ ~WellFormed(e2)
       /\ PastWrite(e3) /\ storeSeen[e3] = "down"

\* C10 (join idempotence): a join_room of a connection that is already a
\* member of room str(request_id) leaves the room registry unchanged; a
\* broadcast issued after any number of joins of c to the room is delivered
\* to c exactly once.
C10_RejoinStep ==
  \A c \in Sids :
    (/\ Len(events') = Len(events) + 1
     /\ events'[Len(events')].kind = "join_room"
     /\ events'[Len(events')].sid = c
     /\ Has(events'[Len(events')].data, "request_id")
     /\ c \in Members(rooms, str(events'[Len(events')].data["request_id"])))
      => rooms' = rooms

C10_OnceEach ==
  \A e \in Started :
    (IsSend(e) /\ Has(events[e].data, "request_id") /\ pc[e] \in {"awaiting", "done"}) =>
      \A c \in Sids :
        JoinedBefore(c, RoomOf(e), e) => Cardinality(ReceivedOf(c, e)) = 1

C10_JoinIdempotence == []C10_OnceEach /\ [][C10_RejoinStep]_vars

\* A connection joined the same room twice and then received the one
\* broadcast to it once; the room has that single member.
W10_JoinedTwice ==
  \E c \in Sids :
    /\ Len(events) = 3
    /\ IsJoin(1) /\ IsJoin(2) /\ events[1].sid = c /\ events[2].sid = c
    /\ Has(events[1].data, "request_id") /\ Has(events[2].data, "request_id")
    /\ RoomOf(1) = RoomOf(2)
    /\ IsSend(3) /\ pc[3] = "done" /\ Has(events[3].data, "request_id")
    /\ RoomOf(3) = RoomOf(1)
    /\ rooms[RoomOf(1)] = {c}
    /\ Len(inbox[c]) = 1

\* C11 (invocation-order preservation): of two send_message events to the
\* same room, the second handled only after the first has completed, every
\* connection that receives both receives the first one's new_message before
\* the second's, and every member of the room at both publishes receives
\* both.  Checked on the runs without overlapping handlers (SeqSpec).
C11_InvocationOrder ==
  \A e1, e2 \in Started :
    (/\ e1 < e2 /\ IsSend(e1) /\ IsSend(e2)
     /\ Has(events[e1].data, "request_id") /\ Has(events[e2].data, "request_id")
     /\ RoomOf(e1) = RoomOf(e2)
     /\ pc[e2] \in {"awaiting", "done"}) =>
      \A c \in Sids :
        /\ \A i \in ReceivedOf(c, e1) : \A j \in ReceivedOf(c, e2) : i < j
        /\ JoinedBefore(c, RoomOf(e1), e1) =>
              ReceivedOf(c, e1) # {} /\ ReceivedOf(c, e2) # {}

\* A member of room "42" holds the messages of two sends to it, the first
\* one first.
W11_TwoSendsInOrder ==
  \E c \in Sids :
    /\ Len(events) = 3 /\ IsJoin(1) /\ IsSend(2) /\ IsSend(3)
    /\ pc[2] = "done" /\ pc[3] = "done"
    /\ Len(inbox[c]) = 2
    /\ inbox[c][1].eid = 2 /\ inbox[c][2].eid = 3
    /\ inbox[c][1].room = "42" /\ inbox[c][2].room = "42"

\* C12 (recipients are the membership at publish time): the emit step
\* delivers the new_message to exactly the connections that are members of
\* room str(request_id) when it is called; a connection whose join, also the
\* first join of an unseen room, was handled before the publish holds the
\* message, and one that joined afterwards never holds it.
C12_PublishStep ==
  \A e \in Eids :
    (pc[e] = "L121" /\ pc'[e] = "awaiting") =>
      \A c \in Sids :
        IF c \in Members(rooms, RoomOf(e))
          THEN inbox'[c] = Append(inbox[c], Delivery(e, RoomOf(e), events[e].data))
          ELSE inbox'[c] = inbox[c]

C12_JoinedBeforePublish ==
  \A e \in Started :
    (IsSend(e) /\ pc[e] \in {"awaiting", "done"}) =>
      /\ \A c \in Sids :
           ReceivedOf(c, e) # {} <=> JoinedBefore(c, RoomOf(e), e)
      /\ \A k \in EmitsOf(e) :
           emitted[k].to = {c \in Sids : JoinedBefore(c, RoomOf(e), e)}

C12_RecipientsAtPublishTime ==
  []C12_JoinedBeforePublish /\ [][C12_PublishStep]_vars

\* One connection made the first join of room "42" and received the send
\* that followed; the other joined after the publish and holds nothing.
W12_LateJoinerMissesMessage ==
  \E c, d \in Sids :
    /\ c # d /\ Len(events) = 3
    /\ IsJoin(1) /\ events[1].sid = c
    /\ IsSend(2) /\ pc[2] = "done"
    /\ IsJoin(3) /\ events[3].sid = d
    /\ rooms = [r \in {"42"} |-> {c, d}]
    /\ Len(inbox[c]) = 1 /\ inbox[c][1].eid = 2
    /\ inbox[d] = <<>>

\* C13 (a persistence failure is never surfaced): when the store write of a
\* send_message fails, the handler returns without an exception escaping;
\* the only event issued for that send is the one new_message to room
\* str(request_id); nothing but that new_message reaches the sender, and the
\* members of the room receive it.
C13_FailureNotSurfaced ==
  \A e \in Started :
    (IsSend(e) /\ storeSeen[e] = "down" /\ Completed(e)) =>
      /\ pc[e] = "done" /\ exc[e] = "none"
      /\ Cardinality(EmitsOf(e)) = 1
      /\ \A k \in EmitsOf(e) : emitted[k].room = RoomOf(e)
      /\ \A c \in Sids :
           /\ \A i \in ReceivedOf(c, e) :
                /\ inbox[c][i].event = "new_message"
                /\ inbox[c][i].room = RoomOf(e)
                /\ inbox[c][i].data = events[e].data
           /\ JoinedBefore(c, RoomOf(e), e) => Cardinality(ReceivedOf(c, e)) = 1
           /\ ~JoinedBefore(c, RoomOf(e), e) => ReceivedOf(c, e) = {}

\* A send whose write failed has returned; its sender, not a member, holds
\* nothing, and the other connection, a member, holds the message.
W13_SilentFailure ==
  \E e \in Started : \E c \in Sids :
    /\ IsSend(e) /\ storeSeen[e] = "down" /\ pc[e] = "done"
    /\ c # events[e].sid
    /\ inbox[events[e].sid] = <<>>
    /\ Cardinality(ReceivedOf(c, e)) = 1
    /\ rows = <<>>

\* C14 (the room key is the exact string form of request_id): a send with
\* request_id r2 reaches a connection that joined with request_id r1 exactly
\* when the two have the same Python string form: the integer 42 and the
\* string "42" address one room, the strings "42" and "042" two.
PyText(v) ==
  CASE v = PyInt(42) -> "42"
    [] v = PyInt(43) -> "43"
    [] v = PyStr("42") -> "42"
    [] v = PyStr("042") -> "042"

C14_ExactStringKey ==
  \A e \in Started :
    (IsSend(e) /\ pc[e] \in {"awaiting", "done"}) =>
      \A c \in Sids :
        ReceivedOf(c, e) # {} <=>
          \E j \in Started :
            /\ j < e /\ IsJoin(j) /\ events[j].sid = c
            /\ Has(events[j].data, "request_id")
            /\ PyText(events[j].data["request_id"])
                 = PyText(events[e].data["request_id"])

\* One connection joined with the integer 42, the other with the string
\* "042"; a send with the string "42" reached the first and not the second.
W14_IntAndStringSameRoom ==
  \E c, d \in Sids : \E e \in Started :
    /\ c # d
    /\ IsSend(e) /\ pc[e] = "done"
    /\ events[e].data["request_id"] = PyStr("42")
    /\ \E j \in Started :
         /\ j < e /\ IsJoin(j) /\ events[j].sid = c
         /\ events[j].data = [request_id |-> PyInt(42)]
    /\ \E j \in Started :
         /\ j < e /\ IsJoin(j) /\ events[j].sid = d
         /\ events[j].data = [request_id |-> PyStr("042")]
    /\ Cardinality(ReceivedOf(c, e)) = 1
    /\ ReceivedOf(d, e) = {}

\* C15 (join_room has no effect beyond membership): a join_room step adds
\* the triggering connection to room str(request_id) and changes nothing
\* else: no connection is sent anything, no emit is made, the Message store
\* and the sessions are untouched, and every other room and every other
\* connection's membership stay as they were.
C15_JoinStep ==
  (/\ Len(events') = Len(events) + 1
   /\ events'[Len(events')].kind = "join_room") =>
     LET ev == events'[Len(events')] IN
       /\ inbox' = inbox /\ emitted' = emitted
       /\ rows' = rows /\ rowEid' = rowEid /\ printed' = printed
       /\ sessions' = sessions /\ storeSeen' = storeSeen
       /\ loop' = loop
       /\ IF Has(ev.data, "request_id")
            THEN LET room == PyText(ev.data["request_id"]) IN
                   /\ DOMAIN rooms' = DOMAIN rooms \cup {room}
                   /\ rooms'[room] = Members(rooms, room) \cup {ev.sid}
                   /\ \A r \in DOMAIN rooms : r # room => rooms'[r] = rooms[r]
            ELSE rooms' = rooms

C15_JoinOnlyAddsMembership == [][C15_JoinStep]_vars

\* A connection joined room "42" after a message had been committed and
\* delivered to the other member: it is a member, it holds nothing, and the
\* other connection's membership, inbox and the row are as they were.
W15_JoinAfterTraffic ==
  \E c, d \in Sids :
    /\ c # d /\ Len(events) = 3
    /\ IsJoin(3) /\ events[3].sid = d /\ pc[3] = "done"
    /\ IsSend(2) /\ pc[2] = "done"
    /\ rooms = [r \in {"42"} |-> {c, d}]
    /\ Len(rows) = 1 /\ Len(emitted) = 1
    /\ Len(inbox[c]) = 1 /\ inbox[d] = <<>>

\* C16 (the Message store is append-only): every step keeps every persisted
\* row, in place and with its request_id, sender_id and content; a step that
\* changes the table adds one row and is the commit of a send_message.
C16_StoreStep ==
  /\ Len(rows') >= Len(rows)
  /\ \A k \in DOMAIN rows : rows'[k] = rows[k]
  /\ rows' # rows =>
       /\ Len(rows') = Len(rows) + 1
       /\ loop \in Started /\ IsSend(loop) /\ pc[loop] = "L115"
       /\ \A f \in Fields : rows'[Len(rows')][f] = events[loop].data[f]

C16_AppendOnlyStore == [][C16_StoreStep]_vars

\* Two sends have each committed a row; the first row is still the first
\* send's.
W16_TwoRowsKept ==
  /\ Len(rows) = 2
  /\ rowEid[1] < rowEid[2]
  /\ pc[rowEid[1]] = "done" /\ pc[rowEid[2]] = "done"
  /\ \A f \in Fields : rows[1][f] = events[rowEid[1]].data[f]
  /\ \A f \in Fields : rows[2][f] = events[rowEid[2]].data[f]
  /\ rows[1] # rows[2]

\* C17 (empty-room no-op): a send_message that publishes to a room without
\* members changes no inbox at the emit step and goes on to return without
\* an error; no connection ever holds its message, and its row is persisted
\* when the store is healthy.
C17_EmptyPublishStep ==
  \A e \in Eids :
    (/\ pc[e] = "L121" /\ Has(events[e].data, "request_id")
     /\ Members(rooms, RoomOf(e)) = {}
     /\ pc'[e] # pc[e]) =>
      /\ pc'[e] = "awaiting" /\ exc'[e] = "none"
      /\ inbox' = inbox
      /\ Len(emitted') = Len(emitted) + 1
      /\ emitted'[Len(emitted')].to = {}

C17_EmptyRoomSend ==
  \A k \in DOMAIN emitted :
    emitted[k].to = {} =>
      LET e == emitted[k].eid IN
        /\ pc[e] \in {"awaiting", "done"} /\ exc[e] = "none"
        /\ \A c \in Sids : ReceivedOf(c, e) = {}
        /\ (WellFormed(e) /\ storeSeen[e] = "up") =>
              /\ Cardinality(RowsOf(e)) = 1
              /\ \A r \in RowsOf(e) :
                   \A f \in Fields : rows[r][f] = events[e].data[f]

C17_EmptyRoomNoOp == []C17_EmptyRoomSend /\ [][C17_EmptyPublishStep]_vars

\* A send to room "43", which nobody joined, has returned with its row
\* committed, while room "42" has a member who holds nothing.
W17_SendToEmptyRoom ==
  \E e \in Started : \E c \in Sids :
    /\ IsSend(e) /\ pc[e] = "done" /\ storeSeen[e] = "up"
    /\ \E k \in EmitsOf(e) : emitted[k].room = "43" /\ emitted[k].to = {}
    /\ Cardinality(RowsOf(e)) = 1
    /\ JoinedBefore(c, "42", e)
    /\ \A d \in Sids : inbox[d] = <<>>

\* C18 (room membership only grows): no step of join_room or send_message
\* removes a connection from a room or destroys a room; every connection
\* whose join was handled is still a member of the room it joined.
C18_GrowStep ==
  \A r \in DOMAIN rooms : r \in DOMAIN rooms' /\ rooms[r] \subseteq rooms'[r]

C18_JoinedStay ==
  \A j \in Started :
    (IsJoin(j) /\ Has(events[j].data, "request_id")) =>
      events[j].sid \in Members(rooms, PyText(events[j].data["request_id"]))

C18_MembershipOnlyGrows == []C18_JoinedStay /\ [][C18_GrowStep]_vars

\* After three joins room "42" has both connections and room "43" one.
W18_RoomsGrown ==
  \E c, d \in Sids :
    /\ c # d /\ Len(events) = 3
    /\ IsJoin(1) /\ IsJoin(2) /\ IsJoin(3)
    /\ rooms = [r \in {"42", "43"} |-> IF r = "42" THEN {c, d} ELSE {c}]

\* C19 (malformed send payloads): a send_message payload that carries
\* request_id but lacks sender_id or content persists no row, has its
\* KeyError caught like a store failure, and is broadcast unmodified to room
\* str(request_id); a payload without request_id persists no row and issues
\* no broadcast, and its handler ends, with its session closed, by a KeyError
\* that escapes it.
C19_MalformedSend ==
  \A e \in Started :
    (IsSend(e) /\ ~WellFormed(e)) =>
      /\ RowsOf(e) = {} /\ storeSeen[e] = "unused"
      /\ PastWrite(e) => Cardinality(FailuresOf(e)) = 1 /\ db[e] \notin sessions
      /\ IF Has(events[e].data, "request_id")
           THEN Completed(e) =>
                  /\ pc[e] = "done" /\ exc[e] = "none"
                  /\ Cardinality(EmitsOf(e)) = 1
                  /\ \A k \in EmitsOf(e) :
                       /\ emitted[k].data = events[e].data
                       /\ emitted[k].room = PyText(events[e].data["request_id"])
                  /\ \A c \in Sids : \A i \in ReceivedOf(c, e) :
                       inbox[c][i].data = events[e].data
           ELSE /\ EmitsOf(e) = {}
                /\ \A c \in Sids : ReceivedOf(c, e) = {}
                /\ pc[e] # "done" /\ pc[e] # "awaiting"
                /\ Completed(e) => pc[e] = "raised" /\ exc[e] = "KeyError"

\* A payload without content was delivered to a member of room "42" and a
\* payload without request_id ended in an escaped KeyError; the store is
\* empty and no session is open.
W19_BothMalformedShapes ==
  \E e1, e2 \in Started : \E c \in Sids :
    /\ IsSend(e1) /\ ~Has(events[e1].data, "content") /\ pc[e1] = "done"
    /\ Cardinality(ReceivedOf(c, e1)) = 1
    /\ IsSend(e2) /\ ~Has(events[e2].data, "request_id") /\ pc[e2] = "raised"
    /\ rows = <<>> /\ sessions = {} /\ Len(emitted) = 1

\* C20 (send_message neither requires nor changes membership): no step of a
\* send_message handler changes the room registry; the handler broadcasts
\* whether or not its sender is a member, and the sender receives its own
\* new_message exactly when it is a member of room str(request_id) at the
\* publish.
C20_SendStep ==
  /\ rooms' # rooms =>
       /\ Len(events') = Len(events) + 1
       /\ events'[Len(events')].kind = "join_room"
  /\ \A e \in Eids :
       (pc[e] = "L121" /\ pc'[e] = "awaiting") =>
         LET sender == events[e].sid IN
           IF sender \in Members(rooms, PyText(events[e].data["request_id"]))
             THEN /\ Len(inbox'[sender]) = Len(inbox[sender]) + 1
                  /\ inbox'[sender][Len(inbox'[sender])].eid = e
             ELSE inbox'[sender] = inbox[sender]

C20_SenderOwnMessage ==
  \A e \in Started :
    (IsSend(e) /\ Has(events[e].data, "request_id") /\ Completed(e)) =>
      /\ pc[e] = "done" /\ Cardinality(EmitsOf(e)) = 1
      /\ ReceivedOf(events[e].sid, e) # {}
           <=> JoinedBefore(events[e].sid, PyText(events[e].data["request_id"]), e)

C20_SendLeavesMembership == []C20_SenderOwnMessage /\ [][C20_SendStep]_vars

\* A member of room "42" holds the message of a sender that is not a member
\* and its own message; the other sender holds nothing and the room still has
\* one member.
W20_OutsiderAndMemberSend ==
  \E c, d \in Sids :
    /\ c # d /\ Len(events) = 3
    /\ IsJoin(1) /\ events[1].sid = c
    /\ IsSend(2) /\ events[2].sid = d /\ pc[2] = "done"
    /\ IsSend(3) /\ events[3].sid = c /\ pc[3] = "done"
    /\ rooms = [r \in {"42"} |-> {c}]
    /\ Len(inbox[c]) = 2 /\ inbox[c][1].eid = 2 /\ inbox[c][2].eid = 3
    /\ inbox[d] = <<>>

====
